---- MODULE Spec2Model ----
(***************************************************************************)
(* Model of src/ppgmle.py: MLE_Hawkes_Generator, the maximum-likelihood    *)
(* trainer of a spatio-temporal Hawkes point process.                      *)
(*                                                                         *)
(* The state is the module global batch_size that log_likelihood and train *)
(* read, the fields set by __init__, the session's parameter state, the    *)
(* result of the last evaluation of the cost graph, and the locals of      *)
(* train.  One action per graph evaluation and per step of train.          *)
(***************************************************************************)
EXTENDS Integers, Sequences, FiniteSets, TLC

\* ------------------------------------------------------------- bounds
MaxB       == 2      \* largest batch size tried
MaxData    == 3      \* largest number of expert sequences
MaxEpoches == 2      \* largest number of epoches
SeqLen     == 2      \* rows of a (padded) sequence

\* ------------------------------------------------------------- constants
DefaultDataDim == 3  \* data_dim=3, the default of __init__
Unbound        == 0 - 1   \* the module global batch_size is not bound

Times    == {0 - 1, 0, 1}     \* time coordinates tried for a row
NoCost   == [num |-> 0, den |-> 0]
NoTheta  == [base |-> "uninitialized", updates |-> 0]

VARIABLES
    pc,               \* position of the caller / of train
    error,            \* the exception raised, "none" if none
    batch_size,       \* the module global read at lines 40, 69, 80, 95
    self_batch_size,  \* self.batch_size (line 26)
    input_shape,      \* static shape of self.input_seqs: <<batch, data_dim>>
    graph_seqs,       \* number of per-sequence terms built by the loop of line 40
    cost_divisor,     \* the divisor of line 31
    theta,            \* the session's model parameters
    run,              \* the last evaluation of the cost graph
    epoches, expert_seqs, expert_dim, pretrained,   \* arguments of train
    n_data, n_batches, epoch, shuffled_ids, b,
    batch_train_ids, batch_train_seqs, avg_train_cost,
    report, n_reports, final, n_finals,             \* what train printed
    theta_entry, n_init, n_steps, epoch_batches     \* history of the train call

vars == <<pc, error, batch_size, self_batch_size, input_shape, graph_seqs,
          cost_divisor, theta, run, epoches, expert_seqs, expert_dim,
          pretrained, n_data, n_batches, epoch, shuffled_ids, b,
          batch_train_ids, batch_train_seqs, avg_train_cost, report,
          n_reports, final, n_finals, theta_entry, n_init, n_steps,
          epoch_batches>>

objVars   == <<batch_size, self_batch_size, input_shape, graph_seqs, cost_divisor>>
argVars   == <<epoches, expert_seqs, expert_dim, pretrained, n_data, n_batches>>
printVars == <<report, n_reports, final, n_finals>>

\* ------------------------------------------------------------- data
\* A row (time, x, y): the second coordinate carries the row's position, so
\* that two rows of one sequence are never equal.
Event(t, tag, dim) == [j \in 1..dim |-> IF j = 1 THEN t ELSE IF j = 2 THEN tag ELSE 0]

\* All padded sequences of SeqLen rows with dim columns.
Seqs(dim) == { [i \in 1..SeqLen |-> Event(ts[i], i, dim)] : ts \in [1..SeqLen -> Times] }

\* Sequences used as expert data of train: entirely padding, or entirely valid.
TrainSeqs(dim) == { s \in Seqs(dim) : \A i \in 1..SeqLen : s[i][1] = s[1][1] /\ s[i][1] >= 0 }

RECURSIVE SumSeq(_)
SumSeq(s) == IF s = <<>> THEN 0 ELSE Head(s) + SumSeq(Tail(s))

\* ------------------------------------------------------------- log_likelihood
\* seq[:, 0] > 0 cast to float32: 1 where the time is positive, else 0.
mask_t_nonneg(seq) == [i \in 1..Len(seq) |-> IF seq[i][1] >= 0 THEN 1 ELSE 0]
mask_t(seq) == [i \in 1..Len(seq) |-> IF seq[i][1] > 0 THEN 1 ELSE 0]

\* tf.boolean_mask: the rows whose mask entry is non-zero, in order.
RECURSIVE boolean_mask(_, _)
boolean_mask(tensor, mask) ==
    IF tensor = <<>> THEN <<>>
    ELSE (IF Head(mask) # 0 THEN <<Head(tensor)>> ELSE <<>>)
         \o boolean_mask(Tail(tensor), Tail(mask))

\* trunc_seq of line 43: the sequence compacted to its valid rows.
trunc_seq_unmasked(seq) == seq
trunc_seq(seq) == boolean_mask(seq, mask_t(seq))

\* tf.range(1, seq_len+1): the elements the scan runs over.
scan_range_from0(seq_len) == [i \in 1..seq_len |-> i - 1]
scan_range(seq_len) == [i \in 1..seq_len |-> i]

\* trunc_seq[:i, :]
prefix(ts, i) == SubSeq(ts, 1, IF i < Len(ts) THEN i ELSE Len(ts))

keep_latest_k == "None"

\* hawkes.log_conditional_pdf: a pure function of the prefix, the cutoff and
\* the parameters; strictly negative here.
log_conditional_pdf(pre, k, th) ==
    0 - (1 + Len(pre) + th.updates
           + (IF pre = <<>> THEN 0 ELSE IF pre[Len(pre)][1] > 0 THEN pre[Len(pre)][1] ELSE 0))

\* The prefixes the scan of lines 46-49 passes to the density function, in order.
scan_calls(seq) ==
    LET ts    == trunc_seq(seq)
        elems == scan_range(Len(ts))
    IN  [j \in 1..Len(elems) |-> prefix(ts, elems[j])]

\* tf.scan(...): one term per element; the accumulator is not used by the lambda.
scan_terms(seq, th) ==
    LET c == scan_calls(seq)
    IN  [j \in 1..Len(c) |-> log_conditional_pdf(c[j], keep_latest_k, th)]

\* One evaluation of the graph built by log_likelihood and line 31 on a feed.
\* nseq is the number of iterations of the loop of line 40, div the divisor.
log_likelihood(feed, th, nseq) ==
    SumSeq([s \in 1..nseq |-> SumSeq(scan_terms(feed[s], th))])

Evaluate(feed, th, nseq, div) ==
    [ feed     |-> feed,
      calls    |-> [s \in 1..nseq |-> scan_calls(feed[s])],
      lls      |-> [s \in 1..nseq |-> SumSeq(scan_terms(feed[s], th))],
      loglikli |-> log_likelihood(feed, th, nseq),
      cost     |-> [num |-> (0 - 1) * log_likelihood(feed, th, nseq), den |-> div] ]

NoRun == [feed |-> <<>>, calls |-> <<>>, lls |-> <<>>, loglikli |-> 0, cost |-> NoCost]

\* A feed is accepted iff its shape is compatible with the placeholder's
\* [batch_size, None, data_dim].
FeedOk(n, dim) == input_shape = <<n, dim>>

\* ------------------------------------------------------------- construction
Init ==
    /\ pc = "new" /\ error = "none"
    /\ batch_size = Unbound
    /\ self_batch_size = 0 /\ input_shape = <<>> /\ graph_seqs = 0 /\ cost_divisor = 0
    /\ theta \in {NoTheta, [base |-> "restored", updates |-> 0]}
    /\ run = NoRun
    /\ epoches = 0 /\ expert_seqs = <<>> /\ expert_dim = 0 /\ pretrained = FALSE
    /\ n_data = 0 /\ n_batches = 0 /\ epoch = 0 /\ shuffled_ids = <<>> /\ b = 0
    /\ batch_train_ids = <<>> /\ batch_train_seqs = <<>> /\ avg_train_cost = <<>>
    /\ report = [epoch |-> 0, n_batches |-> 0, cost |-> NoCost] /\ n_reports = 0
    /\ final = NoTheta /\ n_finals = 0
    /\ theta_entry = NoTheta /\ n_init = 0 /\ n_steps = 0 /\ epoch_batches = <<>>

trainVars == <<epoches, expert_seqs, expert_dim, pretrained, n_data, n_batches,
               epoch, shuffled_ids, b, batch_train_ids, batch_train_seqs,
               avg_train_cost, report, n_reports, final, n_finals,
               theta_entry, n_init, n_steps, epoch_batches>>

\* __init__ called with batch size B and data_dim dd while the module global
\* batch_size is g.
MLE_Hawkes_Generator(g, B, dd) ==
    /\ pc = "new"
    /\ batch_size' = g
    /\ self_batch_size' = B
    /\ input_shape' = <<B, dd>>
    /\ IF g = Unbound
       THEN \* line 40: NameError, batch_size is no local and no global
            /\ pc' = "error" /\ error' = "NameError"
            /\ graph_seqs' = 0 /\ cost_divisor' = 0
       ELSE IF g > B
       THEN \* line 41: input_seqs[b] with b >= B is out of bounds
            /\ pc' = "error" /\ error' = "ValueError"
            /\ graph_seqs' = B /\ cost_divisor' = 0
       ELSE /\ pc' = "ready" /\ error' = "none"
            /\ graph_seqs' = g
            /\ cost_divisor' = B
    /\ UNCHANGED <<theta, run>>
    /\ UNCHANGED trainVars

\* Lines 107-113: the script binds the global and passes it to __init__.
Main ==
    \E bs \in 1..MaxB : MLE_Hawkes_Generator(bs, bs, DefaultDataDim)

\* A caller in whose environment the global is unbound or bound to any value.
Caller ==
    \E g \in {Unbound} \cup (1..MaxB), bs \in 1..MaxB :
        MLE_Hawkes_Generator(g, bs, DefaultDataDim)

\* ------------------------------------------------------------- sess.run(cost)
\* sess.run(self.cost, feed_dict={self.input_seqs: feed}) by a caller.
RunCost ==
    /\ pc = "ready"
    /\ \E dim \in {DefaultDataDim - 1, DefaultDataDim} :
       \E feed \in [1..self_batch_size -> Seqs(dim)] :
          IF ~FeedOk(Len(feed), dim)
          THEN /\ pc' = "error" /\ error' = "ValueError"
               /\ UNCHANGED run
          ELSE IF theta.base = "uninitialized"
          THEN /\ pc' = "error" /\ error' = "FailedPreconditionError"
               /\ UNCHANGED run
          ELSE /\ pc' = "evaluated" /\ error' = "none"
               /\ run' = Evaluate(feed, theta, graph_seqs, cost_divisor)
    /\ UNCHANGED theta
    /\ UNCHANGED objVars
    /\ UNCHANGED trainVars

\* ------------------------------------------------------------- train
\* tf.global_variables_initializer()
global_variables_initializer == [base |-> "initialized", updates |-> 0]

\* One GradientDescentOptimizer update of the parameters.
minimize(th) == [th EXCEPT !.updates = @ + 1]

\* int(n_data / batch_size)
n_batches_ceil(n, bs) == (n + bs - 1) \div bs
n_batches_of(n, bs) == n \div bs

\* np.arange(n) shuffled in place: any permutation of 0..n-1, as a sequence.
shuffle(n) == { p \in [1..n -> 0..(n - 1)] : \A i, j \in 1..n : i # j => p[i] # p[j] }

\* np.arange(batch_size * b, batch_size * (b + 1))
idx(bs, bb) == [j \in 1..bs |-> bs * bb + (j - 1)]

\* shuffled_ids[idx] and expert_seqs[batch_train_ids, :, :] (0-based values)
take(arr, ids) == [j \in 1..Len(ids) |-> arr[ids[j] + 1]]

\* np.mean of a list of costs of one denominator; 0/0 (nan) for the empty list.
np_mean(costs) ==
    [ num |-> SumSeq([j \in 1..Len(costs) |-> costs[j].num]),
      den |-> (IF costs = <<>> THEN 0 ELSE costs[1].den) * Len(costs) ]

\* Lines 58-69: the optional initialization and the data configuration.
TrainInitAlways ==
    /\ pc = "ready"
    /\ \E ep \in 0..MaxEpoches, pre \in BOOLEAN, n \in 0..MaxData,
          dim \in {DefaultDataDim - 1, DefaultDataDim} :
       \E data \in [1..n -> TrainSeqs(dim)] :
          /\ epoches' = ep /\ pretrained' = pre
          /\ expert_seqs' = data /\ expert_dim' = dim
          /\ theta_entry' = theta
          /\ theta' = global_variables_initializer
          /\ n_init' = n_init + 1
          /\ n_data' = n
          /\ n_batches' = n_batches_of(n, batch_size)
    /\ epoch' = 0
    /\ pc' = "epoch"
    /\ UNCHANGED <<error, run, shuffled_ids, b, batch_train_ids, batch_train_seqs,
                   avg_train_cost, n_steps, epoch_batches>>
    /\ UNCHANGED objVars
    /\ UNCHANGED printVars

TrainInit ==
    /\ pc = "ready"
    /\ \E ep \in 0..MaxEpoches, pre \in BOOLEAN, n \in 0..MaxData,
          dim \in {DefaultDataDim - 1, DefaultDataDim} :
       \E data \in [1..n -> TrainSeqs(dim)] :
          /\ epoches' = ep /\ pretrained' = pre
          /\ expert_seqs' = data /\ expert_dim' = dim
          /\ theta_entry' = theta
          /\ theta' = IF ~pre THEN global_variables_initializer ELSE theta
          /\ n_init' = IF ~pre THEN n_init + 1 ELSE n_init
          /\ n_data' = n
          /\ n_batches' = n_batches_of(n, batch_size)
    /\ epoch' = 0
    /\ pc' = "epoch"
    /\ UNCHANGED <<error, run, shuffled_ids, b, batch_train_ids, batch_train_seqs,
                   avg_train_cost, n_steps, epoch_batches>>
    /\ UNCHANGED objVars
    /\ UNCHANGED printVars

\* Lines 72-78: the next epoch starts: fresh permutation, empty cost list.
ShuffleKeepCosts ==
    /\ pc = "epoch" /\ epoch < epoches
    /\ \E p \in shuffle(n_data) : shuffled_ids' = p
    /\ b' = 0
    /\ epoch_batches' = <<>>
    /\ pc' = "batch"
    /\ UNCHANGED <<error, theta, run, epoch, batch_train_ids, batch_train_seqs,
                   avg_train_cost, theta_entry, n_init, n_steps>>
    /\ UNCHANGED objVars
    /\ UNCHANGED argVars
    /\ UNCHANGED printVars

Shuffle ==
    /\ pc = "epoch" /\ epoch < epoches
    /\ \E p \in shuffle(n_data) : shuffled_ids' = p
    /\ avg_train_cost' = <<>>
    /\ b' = 0
    /\ epoch_batches' = <<>>
    /\ pc' = "batch"
    /\ UNCHANGED <<error, theta, run, epoch, batch_train_ids, batch_train_seqs,
                   theta_entry, n_init, n_steps>>
    /\ UNCHANGED objVars
    /\ UNCHANGED argVars
    /\ UNCHANGED printVars

\* Lines 79-86: the batch is selected and one optimizer step runs on it.
OptimizerStep ==
    /\ pc = "batch" /\ b < n_batches
    /\ LET ids  == take(shuffled_ids, idx(batch_size, b))
           seqs == take(expert_seqs, ids)
       IN  /\ batch_train_ids' = ids
           /\ batch_train_seqs' = seqs
           /\ IF ~FeedOk(Len(seqs), expert_dim)
              THEN /\ pc' = "error" /\ error' = "ValueError"
                   /\ UNCHANGED <<theta, run, n_steps, epoch_batches>>
              ELSE IF theta.base = "uninitialized"
              THEN /\ pc' = "error" /\ error' = "FailedPreconditionError"
                   /\ UNCHANGED <<theta, run, n_steps, epoch_batches>>
              ELSE /\ pc' = "cost" /\ error' = "none"
                   /\ run' = Evaluate(seqs, theta, graph_seqs, cost_divisor)
                   /\ theta' = minimize(theta)
                   /\ n_steps' = n_steps + 1
                   /\ epoch_batches' = Append(epoch_batches, ids)
    /\ UNCHANGED <<epoch, shuffled_ids, b, avg_train_cost, theta_entry, n_init>>
    /\ UNCHANGED objVars
    /\ UNCHANGED argVars
    /\ UNCHANGED printVars

\* Lines 88-91: the cost of the same batch is evaluated and recorded.
EvalCostAndStep ==
    /\ pc = "cost"
    /\ run' = Evaluate(batch_train_seqs, theta, graph_seqs, cost_divisor)
    /\ theta' = minimize(theta)
    /\ avg_train_cost' = Append(avg_train_cost, run'.cost)
    /\ b' = b + 1
    /\ pc' = "batch"
    /\ UNCHANGED <<error, epoch, shuffled_ids, batch_train_ids, batch_train_seqs,
                   theta_entry, n_init, n_steps, epoch_batches>>
    /\ UNCHANGED objVars
    /\ UNCHANGED argVars
    /\ UNCHANGED printVars

EvalCost ==
    /\ pc = "cost"
    /\ run' = Evaluate(batch_train_seqs, theta, graph_seqs, cost_divisor)
    /\ avg_train_cost' = Append(avg_train_cost, run'.cost)
    /\ b' = b + 1
    /\ pc' = "batch"
    /\ UNCHANGED <<error, theta, epoch, shuffled_ids, batch_train_ids, batch_train_seqs,
                   theta_entry, n_init, n_steps, epoch_batches>>
    /\ UNCHANGED objVars
    /\ UNCHANGED argVars
    /\ UNCHANGED printVars

\* Lines 94-96: the epoch's average cost is printed.  Line 94 rebinds the name
\* avg_train_cost to the mean, held here in report.cost; the list itself is
\* not read again before line 78 replaces it.
EpochReport ==
    /\ pc = "batch" /\ b >= n_batches
    /\ report' = [epoch |-> epoch, n_batches |-> n_batches, cost |-> np_mean(avg_train_cost)]
    /\ n_reports' = n_reports + 1
    /\ epoch' = epoch + 1
    /\ pc' = "epoch"
    /\ UNCHANGED <<error, theta, run, shuffled_ids, b, batch_train_ids, batch_train_seqs,
                   avg_train_cost, final, n_finals, theta_entry, n_init, n_steps,
                   epoch_batches>>
    /\ UNCHANGED objVars
    /\ UNCHANGED argVars

\* Line 98: the learned parameters are read from the session and printed.
FinalReport ==
    /\ pc = "epoch" /\ epoch >= epoches
    /\ IF theta.base = "uninitialized"
       THEN /\ pc' = "error" /\ error' = "FailedPreconditionError"
            /\ UNCHANGED <<final, n_finals>>
       ELSE /\ pc' = "done" /\ error' = "none"
            /\ final' = theta
            /\ n_finals' = n_finals + 1
    /\ UNCHANGED <<theta, run, epoch, shuffled_ids, b, batch_train_ids, batch_train_seqs,
                   avg_train_cost, report, n_reports, theta_entry, n_init, n_steps,
                   epoch_batches>>
    /\ UNCHANGED objVars
    /\ UNCHANGED argVars

\* ------------------------------------------------------------- specifications
Next ==
    \/ Main
    \/ RunCost
    \/ TrainInit
    \/ Shuffle
    \/ OptimizerStep
    \/ EvalCost
    \/ EpochReport
    \/ FinalReport

\* The script of lines 100-114: the global equals the constructor's argument.
Spec == Init /\ [][Next]_vars

NextEnv ==
    \/ Caller
    \/ RunCost
    \/ TrainInit
    \/ Shuffle
    \/ OptimizerStep
    \/ EvalCost
    \/ EpochReport
    \/ FinalReport

\* The class used by any caller: the global is whatever the environment has.
SpecEnv == Init /\ [][NextEnv]_vars

\* ------------------------------------------------------------- properties
\* Helpers of the properties, defined from the rows themselves and not from
\* the operators above.
InTrain  == pc \in {"epoch", "batch", "cost", "done"}
Valid(seq) == {i \in 1..Len(seq) : seq[i][1] > 0}
\* position of the k-th valid row of seq
KthValid(seq, k) == CHOOSE p \in Valid(seq) : Cardinality({q \in Valid(seq) : q <= p}) = k
FirstValid(seq, n) == [k \in 1..n |-> seq[KthValid(seq, k)]]
\* the parameters after the n-th update since the start of the train call
ThetaAfter(n) == [base |-> theta.base, updates |-> n]

\* C1: in every evaluation of the cost graph, for every sequence of the fed
\* batch, a row with time <= 0 occurs in no prefix passed to the density
\* function, and the number of density terms of the sequence is the number of
\* its rows with time > 0.
C1_MaskingCorrect ==
    \A s \in 1..Len(run.feed) :
        /\ s \in DOMAIN run.calls
        /\ \A i \in 1..Len(run.feed[s]) :
              run.feed[s][i][1] <= 0 =>
                 \A j \in 1..Len(run.calls[s]) :
                    \A k \in 1..Len(run.calls[s][j]) :
                       run.calls[s][j][k] # run.feed[s][i]
        /\ Len(run.calls[s]) = Cardinality(Valid(run.feed[s]))

\* An evaluated batch holding a sequence whose padding row precedes a valid row.
C1_Witness ==
    /\ pc = "evaluated"
    /\ \E s \in 1..Len(run.feed) :
          \E i, j \in 1..Len(run.feed[s]) :
             i < j /\ run.feed[s][i][1] <= 0 /\ run.feed[s][j][1] > 0

\* C2: for every sequence with L valid rows, exactly L terms are produced and
\* the prefix of the i-th term is the first i valid rows in original order.
C2_PrefixExact ==
    \A s \in 1..Len(run.feed) :
        /\ s \in DOMAIN run.calls
        /\ Len(run.calls[s]) = Cardinality(Valid(run.feed[s]))
        /\ \A i \in 1..Len(run.calls[s]) :
              run.calls[s][i] = FirstValid(run.feed[s], i)

\* An evaluated sequence with two valid rows: two terms, the second over both.
C2_Witness ==
    /\ pc = "evaluated"
    /\ \E s \in 1..Len(run.feed) :
          /\ Cardinality(Valid(run.feed[s])) >= 2
          /\ Len(run.calls[s]) >= 2

\* C3: a sequence without valid rows contributes 0, the density function is
\* not invoked for it, the evaluation raises no error, and the total is the
\* sum of the contributions of the other sequences.
C3_EmptySequence ==
    run # NoRun =>
        /\ error = "none"
        /\ Len(run.lls) = Len(run.feed) /\ Len(run.calls) = Len(run.feed)
        /\ \A s \in 1..Len(run.feed) :
              Valid(run.feed[s]) = {} => run.calls[s] = <<>> /\ run.lls[s] = 0
        /\ run.loglikli =
              SumSeq([s \in 1..Len(run.feed) |->
                         IF Valid(run.feed[s]) = {} THEN 0 ELSE run.lls[s]])

\* A batch of an all-padding sequence and a sequence with valid rows, evaluated.
C3_Witness ==
    /\ pc = "evaluated" /\ error = "none"
    /\ \E s, t \in 1..Len(run.feed) :
          /\ Valid(run.feed[s]) = {}
          /\ Valid(run.feed[t]) # {} /\ run.lls[t] # 0 /\ run.loglikli = run.lls[t]

\* C4: n_batches = floor(n_data / batch_size); the batches of an epoch are
\* the contiguous blocks of its permutation, without repeats, and the
\* remainder is fed to no optimizer step.
C4_BatchPartition ==
    InTrain =>
        /\ n_batches * batch_size <= n_data
        /\ n_data < (n_batches + 1) * batch_size
        /\ pc \in {"batch", "cost"} =>
              /\ Len(shuffled_ids) = n_data
              /\ {shuffled_ids[p] : p \in 1..n_data} = 0..(n_data - 1)
              /\ Len(epoch_batches) <= n_batches
              /\ \A k \in 1..Len(epoch_batches) :
                    /\ Len(epoch_batches[k]) = batch_size
                    /\ \A j \in 1..batch_size :
                          epoch_batches[k][j] = shuffled_ids[(k - 1) * batch_size + j]
              /\ \A k1, k2 \in 1..Len(epoch_batches) :
                    \A j1, j2 \in 1..batch_size :
                       (k1 # k2 \/ j1 # j2) => epoch_batches[k1][j1] # epoch_batches[k2][j2]
              /\ \A p \in (n_batches * batch_size + 1)..n_data :
                    \A k \in 1..Len(epoch_batches) :
                       \A j \in 1..batch_size : epoch_batches[k][j] # shuffled_ids[p]
              /\ (pc = "batch" /\ b >= n_batches) =>
                    { epoch_batches[k][j] : k \in 1..Len(epoch_batches), j \in 1..batch_size }
                       = { shuffled_ids[p] : p \in 1..(n_batches * batch_size) }

\* The end of an epoch whose remainder was dropped after at least one batch.
C4_Witness ==
    /\ pc = "batch" /\ b >= n_batches /\ n_batches >= 1
    /\ n_data > n_batches * batch_size
    /\ batch_size >= 2

\* C5: the total sums the log-likelihoods of all B fed sequences and the cost
\* is minus the total over B, B being the batch size given to the
\* constructor: the loop count, the divisor, the buffer's first dimension and
\* the block size of train are that one value.
C5_OneBatchSize ==
    run # NoRun =>
        /\ Len(run.feed) = self_batch_size
        /\ input_shape[1] = self_batch_size
        /\ batch_size = self_batch_size
        /\ Len(run.lls) = self_batch_size
        /\ run.loglikli = SumSeq([s \in 1..self_batch_size |-> run.lls[s]])
        /\ run.cost = [num |-> 0 - run.loglikli, den |-> self_batch_size]

\* C6: each batch gets one optimizer step and then the evaluation of the cost
\* of the same batch under the parameters that step produced; the evaluation
\* leaves the parameters alone.
C6_Recorded ==
    pc \in {"batch", "cost"} =>
        /\ Len(avg_train_cost) = b
        /\ Len(epoch_batches) = (IF pc = "cost" THEN b + 1 ELSE b)
        /\ n_steps = epoch * n_batches + Len(epoch_batches)
        /\ theta.updates = n_steps
        /\ pc = "cost" => batch_train_ids = epoch_batches[b + 1]
        /\ \A k \in 1..Len(avg_train_cost) :
              avg_train_cost[k] =
                 [ num |-> 0 - SumSeq([s \in 1..batch_size |->
                              SumSeq(scan_terms(expert_seqs[epoch_batches[k][s] + 1],
                                                ThetaAfter(epoch * n_batches + k)))]),
                   den |-> batch_size ]

C6_StepThenCost ==
    /\ []C6_Recorded
    /\ [][pc = "cost" => (theta' = theta /\ pc' = "batch" /\ n_steps' = n_steps)]_vars

\* A recorded cost of a batch with valid rows, after the second update.
C6_Witness ==
    /\ pc = "batch" /\ Len(avg_train_cost) >= 1 /\ n_steps >= 2
    /\ avg_train_cost[Len(avg_train_cost)].num # 0

\* C7: the parameters are initialized once, before the first optimizer step,
\* unless pretrained, and then not at all; afterwards only optimizer steps
\* change them.
C7_InitState ==
    (InTrain \/ (pc = "error" /\ expert_dim # 0)) =>
        /\ n_init = (IF pretrained THEN 0 ELSE 1)
        /\ theta.base = (IF pretrained THEN theta_entry.base ELSE "initialized")
        /\ theta.updates = n_steps
        /\ (n_steps = 0 /\ pretrained) => theta = theta_entry
        /\ (n_steps = 0 /\ ~pretrained) => theta = global_variables_initializer

C7_InitOnce ==
    /\ []C7_InitState
    /\ [][theta' # theta =>
            \/ (pc = "batch" /\ pc' = "cost" /\ n_steps' = n_steps + 1 /\ n_init' = n_init)
            \/ (pc = "ready" /\ pc' = "epoch" /\ ~pretrained' /\ n_init' = 1)]_vars
    /\ [][n_init' # n_init => pc = "ready"]_vars

\* A warm-started call that finished after at least one optimizer step.
C7_Witness ==
    /\ pc = "done" /\ pretrained /\ n_steps >= 1 /\ n_init = 0
    /\ theta.base = "restored"

\* C8: with n_batches = 0 and epoches >= 1, train raises an error and prints
\* no average over an empty list of costs.
C8_FailsWithoutBatch ==
    (expert_dim # 0 /\ n_batches = 0 /\ epoches >= 1) =>
        /\ n_reports = 0
        /\ pc # "done"

\* C9: when the last dimension of expert_seqs is not data_dim, train raises
\* before any state change: no initialization, no step, no report.
C9_FailFast ==
    (expert_dim # 0 /\ expert_dim # input_shape[2]) =>
        /\ pc = "error"
        /\ theta = theta_entry
        /\ n_init = 0 /\ n_steps = 0 /\ n_reports = 0 /\ n_finals = 0

\* Steps of train left before the call returns, when nothing is raised.
Remaining ==
    IF pc = "done" THEN 0
    ELSE (epoches - epoch) * (2 * n_batches + 2) + 1
         - (IF pc = "epoch" THEN 0 ELSE 1 + 2 * b + (IF pc = "cost" THEN 1 ELSE 0))

\* C10: a call that raises nothing runs epoches * n_batches optimizer steps,
\* prints one average per epoch, after the epoch's steps and before the next
\* epoch's, over that epoch's n_batches recorded costs, and prints the final
\* parameters once, after the last epoch's report.
C10_RunShape ==
    /\ InTrain =>
          /\ epoch <= epoches
          /\ n_reports = epoch
          /\ n_finals = (IF pc = "done" THEN 1 ELSE 0)
          /\ pc = "epoch" => n_steps = epoch * n_batches
          /\ pc \in {"batch", "cost"} =>
                /\ epoch < epoches /\ b <= n_batches
                /\ Len(avg_train_cost) = b
                /\ n_steps = epoch * n_batches + (IF pc = "cost" THEN b + 1 ELSE b)
          /\ (pc = "epoch" /\ epoch >= 1) =>
                /\ Len(avg_train_cost) = n_batches
                /\ report = [epoch |-> epoch - 1, n_batches |-> n_batches,
                             cost |-> np_mean(avg_train_cost)]
          /\ pc = "done" =>
                /\ n_steps = epoches * n_batches
                /\ n_reports = epoches
                /\ final = theta
          /\ Remaining >= 0 /\ (Remaining = 0 <=> pc = "done")

C10_Run ==
    /\ []C10_RunShape
    /\ [][(InTrain /\ InTrain') => Remaining' = Remaining - 1]_vars
    /\ [][n_reports' # n_reports =>
            (pc = "batch" /\ b = n_batches /\ n_reports' = n_reports + 1
             /\ n_steps = (epoch + 1) * n_batches /\ n_steps' = n_steps)]_vars
    /\ [][n_finals' # n_finals => (pc = "epoch" /\ n_reports = epoches /\ n_finals = 0)]_vars

\* A finished call of two epoches of two batches each.
C10_Witness ==
    /\ pc = "done" /\ epoches >= 2 /\ n_batches >= 2
    /\ n_steps = epoches * n_batches /\ n_reports = epoches /\ n_finals = 1

====
